---------------------------- MODULE Spec2Model ----------------------------
(***************************************************************************)
(* Model of the DDI-CDI toolkit's schema compiler ordering                 *)
(* (lab/ddicdi_to_sempyro.py) and of its RDF-to-Pydantic deserializer      *)
(* (src/dartfx/ddi/ddicdi/sempyro_deserializer.py).                        *)
(***************************************************************************)
EXTENDS Integers, Sequences, FiniteSets, TLC

\* ------------------------------------------------------------------ bounds
\* Resource URIs of the ontology are the integers 1..MaxNodes.
MaxNodes == 3
\* The subclass_of dict holds at most MaxEdges entries.
MaxEdges == 2

Nodes == 1..MaxNodes

VARIABLES
    \* topological_sort_resources: its two arguments and its locals
    resources, subclass_of, children, in_degree, queue, result,
    reordered_items, correct_orderings, total_relationships,
    pc,      \* position in topological_sort_resources
    steps,   \* history: loop iterations and passes executed so far
    \* generate: the ontology model's answers and the artifact written
    enumerations,      \* model.get_ucmis_enumerations()
    datatypes,         \* model.get_ucmis_structureddatatypes()
    classes,           \* model.get_ucmis_classes()
    model_subclass_of, \* model.get_subclassof(): items in "order by ?child"
    output,            \* type declarations written to the file, in order
    gen_pc,            \* position in generate
    \* SemPyRODeserializer and its caller
    pool,           \* the RDF graphs the caller holds and passes to the calls
    module,         \* self.module: the members of the model module, in the
                    \* order of inspect.getmembers (sorted by name)
    class_registry, \* self.class_registry: RDF type IRI -> class
    instances,      \* self.instances: subject string -> instance
    heap,           \* every model instance constructed so far; an instance's
                    \* identity is its position in this sequence
    returned,       \* what the last call returned or raised
    warnings,       \* subjects for which the last deserialize printed a warning
    last_call,      \* the last call made: operation, graph, arguments
    calls,          \* number of calls made
    original,       \* the instance the caller built and serialized to the graph
    \* generate_resource writing one domain attribute of a class
    field_run,      \* the attribute, its XML schema element, the cardinality
                    \* looked up, the outcome of generate_field, the position
    \* DdiCdiModel and the queries made to it
    ontology,       \* self.graph and self.xml: attributes, associations, schema
    model_run       \* the last query: its arguments and what it returned

sortVars == <<resources, subclass_of, children, in_degree, queue, result,
              reordered_items, correct_orderings, total_relationships, pc, steps>>

genVars == <<enumerations, datatypes, classes, model_subclass_of, output, gen_pc>>

deserVars == <<pool, module, original, class_registry, instances, heap, returned, warnings, last_call, calls>>

fieldVars == <<field_run>>

modelVars == <<ontology, model_run>>

vars == <<sortVars, genVars, deserVars, fieldVars, modelVars>>

otherThanSort == <<genVars, deserVars, fieldVars, modelVars>>
otherThanGen == <<sortVars, deserVars, fieldVars, modelVars>>
otherThanDeser == <<sortVars, genVars, fieldVars, modelVars>>
otherThanField == <<sortVars, genVars, deserVars, modelVars>>
otherThanModel == <<sortVars, genVars, deserVars, fieldVars>>

\* ------------------------------------------------------- generic helpers
Range(s) == {s[i] : i \in 1..Len(s)}

\* All sequences of pairwise distinct elements of S, of length at most n.
DistinctSeqs(S, n) ==
    UNION {{s \in [1..k -> S] : \A i, j \in 1..k : i # j => s[i] # s[j]} : k \in 0..n}

\* Python list.index(x): the position (0-based) of the first occurrence.
IndexOf(s, x) == (CHOOSE i \in 1..Len(s) : s[i] = x /\ \A j \in 1..(i-1) : s[j] # x) - 1

\* dict.items() of a child -> parent dict, in iteration (insertion) order:
\* a sequence of <<child, parent>> pairs with pairwise distinct children.
DictItems(S, n) ==
    UNION {{[i \in 1..Len(ks) |-> <<ks[i], ps[i]>>] : ps \in [1..Len(ks) -> S]}
           : ks \in DistinctSeqs(S, n)}

\* ------------------------------------------- topological_sort_resources
\* The (child, parent) items with both ends in the resource set, in dict order.
RestrictedItems(res, sub) ==
    SelectSeq(sub, LAMBDA e : e[1] \in Range(res) /\ e[2] \in Range(res))

\* children[parent]: its children in the order the dict yields them.
BuildChildren(res, sub) ==
    [r \in Range(res) |->
        LET mine == SelectSeq(RestrictedItems(res, sub), LAMBDA e : e[2] = r)
        IN  [i \in 1..Len(mine) |-> mine[i][1]]]

\* in_degree[child]: the number of its items with the parent in the set.
BuildInDegree(res, sub) ==
    [r \in Range(res) |->
        Len(SelectSeq(RestrictedItems(res, sub), LAMBDA e : e[1] = r))]

\* Mutant: the queue is seeded with every resource, whatever its in-degree.
InitialQueueUnfiltered(res, deg) == res

\* queue = [resource for resource in resources if in_degree[resource] == 0]
InitialQueue(res, deg) == SelectSeq(res, LAMBDA r : deg[r] = 0)

\* Mutant: the in-degrees are decremented but no released child is enqueued.
RECURSIVE ReleaseNoEnqueue(_, _, _)
ReleaseNoEnqueue(cs, deg, q) ==
    IF cs = <<>> THEN [in_degree |-> deg, queue |-> q]
    ELSE ReleaseNoEnqueue(Tail(cs), [deg EXCEPT ![Head(cs)] = @ - 1], q)

\* for child in children[current]: in_degree[child] -= 1; enqueue at zero.
RECURSIVE ReleaseChildren(_, _, _)
ReleaseChildren(cs, deg, q) ==
    IF cs = <<>> THEN [in_degree |-> deg, queue |-> q]
    ELSE LET child == Head(cs)
             deg2  == [deg EXCEPT ![child] = @ - 1]
             q2    == IF deg2[child] = 0 THEN Append(q, child) ELSE q
         IN  ReleaseChildren(Tail(cs), deg2, q2)

\* Mutant: queue.pop() takes the last element instead of the first.
PopQueueLast(q) == [current |-> q[Len(q)], rest |-> SubSeq(q, 1, Len(q) - 1)]

\* current = queue.pop(0)
PopQueue(q) == [current |-> Head(q), rest |-> Tail(q)]

\* One iteration of the while loop.
KahnIter(q, res, deg, ch) ==
    LET p   == PopQueue(q)
        rel == ReleaseChildren(ch[p.current], deg, p.rest)
    IN  [queue |-> rel.queue, result |-> Append(res, p.current),
         in_degree |-> rel.in_degree]

\* Mutant: the "not in result" filter is dropped.
RemainingUnfiltered(res, out) == res

\* remaining = [r for r in resources if r not in result]
Remaining(res, out) == SelectSeq(res, LAMBDA r : r \notin Range(out))

\* Mutant: the unvisited resources are put in front of the visited ones.
CycleFallbackInFront(res, out) ==
    IF Len(out) # Len(res) THEN Remaining(res, out) \o out ELSE out

\* if len(result) != len(resources): result.extend(remaining)
CycleFallback(res, out) ==
    IF Len(out) # Len(res) THEN out \o Remaining(res, out) ELSE out

\* Mutant: the verification compares with <= instead of <.
RECURSIVE VerifyItemsLeq(_, _, _, _)
VerifyItemsLeq(items, res, out, acc) ==
    IF items = <<>> THEN acc
    ELSE LET child  == Head(items)[1]
             parent == Head(items)[2]
             acc2 ==
                IF IndexOf(out, parent) <= IndexOf(out, child)
                THEN [acc EXCEPT !.total_relationships = @ + 1, !.correct_orderings = @ + 1]
                ELSE [acc EXCEPT
                        !.total_relationships = @ + 1,
                        !.reordered_items =
                            Append(@, [mark |-> "incorrect", parent |-> parent, child |-> child])]
         IN  VerifyItemsLeq(Tail(items), res, out, acc2)

\* The verification loop over subclass_of.items().
RECURSIVE VerifyItems(_, _, _, _)
VerifyItems(items, res, out, acc) ==
    IF items = <<>> THEN acc
    ELSE LET child  == Head(items)[1]
             parent == Head(items)[2]
             child_idx  == IndexOf(out, child)
             parent_idx == IndexOf(out, parent)
             child_original_idx  == IndexOf(res, child)
             parent_original_idx == IndexOf(res, parent)
             acc2 ==
                IF parent_idx < child_idx
                THEN [acc EXCEPT
                        !.total_relationships = @ + 1,
                        !.correct_orderings = @ + 1,
                        !.reordered_items =
                            IF parent_original_idx > child_original_idx
                            THEN Append(@, [mark |-> "reordered", parent |-> parent, child |-> child])
                            ELSE @]
                ELSE [acc EXCEPT
                        !.total_relationships = @ + 1,
                        !.reordered_items =
                            Append(@, [mark |-> "incorrect", parent |-> parent, child |-> child])]
         IN  VerifyItems(Tail(items), res, out, acc2)

VerifyStart == [reordered_items |-> <<>>, correct_orderings |-> 0, total_relationships |-> 0]

\* The whole while loop.
RECURSIVE KahnLoop(_, _, _, _)
KahnLoop(q, res, deg, ch) ==
    IF q = <<>> THEN res
    ELSE LET it == KahnIter(q, res, deg, ch)
         IN  KahnLoop(it.queue, it.result, it.in_degree, ch)

\* The list topological_sort_resources(resources, subclass_of) returns.
TopologicalSort(res, sub) ==
    LET deg == BuildInDegree(res, sub)
    IN  CycleFallback(res, KahnLoop(InitialQueue(res, deg), <<>>, deg, BuildChildren(res, sub)))
\* An empty dict.
EmptyDict == [x \in {} |-> x]

\* What a call returned or raised.
Returned(kind, id, items, exc, types) ==
    [kind |-> kind, id |-> id, items |-> items, exc |-> exc, types |-> types]
NothingReturned == Returned("", 0, <<>>, "", <<>>)

\* Python's None (str(None) is "None").
None == "None"

\* The rdfs:range of an attribute as get_resource_domain_attributes hands it
\* over: None, one prefixed name, or a list of prefixed names.  A prefixed
\* name is kept as the parts that split(":") gives.
NoRange == [kind |-> "none", parts |-> <<>>, items |-> <<>>]
StrRange(parts) == [kind |-> "str", parts |-> parts, items |-> <<>>]
ListRange(items) == [kind |-> "list", parts |-> <<>>, items |-> items]

\* The xs:element of the attribute in the XML schema, if there is one, with
\* its minOccurs and maxOccurs attributes (None when the attribute is absent).
NoEntry == [found |-> FALSE, minOccurs |-> None, maxOccurs |-> None]
Entry(lo, hi) == [found |-> TRUE, minOccurs |-> lo, maxOccurs |-> hi]

\* What generate_field returns or raises: the field's type annotation as the
\* pieces it is concatenated from, its default, its rdf_type.
FieldCode(python_type, default, rdf_type) ==
    [tag |-> "field", exc |-> "", python_type |-> python_type, default |-> default,
     rdf_type |-> rdf_type]
Raises(exc) ==
    [tag |-> "raise", exc |-> exc, python_type |-> <<>>, default |-> "", rdf_type |-> <<>>]
NoField == [tag |-> "", exc |-> "", python_type |-> <<>>, default |-> "", rdf_type |-> <<>>]

\* What generate_resource returns or raises: the names of the fields it
\* wrote, in order.
NoCode == [tag |-> "", exc |-> "", fields |-> <<>>]

\* No query was made to the ontology model.
NoQuery ==
    [op |-> "", resource |-> "", attribute |-> [owner |-> "", local |-> ""], inherited |-> FALSE,
     attributes |-> <<>>, cardinality |-> EmptyDict, type_name |-> "", code |-> NoCode]

\* No ontology model is loaded.
ModelIdle ==
    /\ ontology = [attributes |-> <<>>, associations |-> <<>>, xml |-> EmptyDict]
    /\ model_run = NoQuery

\* No attribute is being written.
FieldIdle ==
    field_run = [pc |-> "", range |-> NoRange, entry |-> NoEntry, cardinality |-> EmptyDict,
                 code |-> NoField]

\* The deserializer before construction.
DeserIdle ==
    /\ pool = <<>> /\ module = <<>>
    /\ original = [cls |-> "", label |-> <<>>, names |-> <<>>]
    /\ class_registry = EmptyDict /\ instances = EmptyDict /\ heap = <<>>
    /\ returned = NothingReturned /\ warnings = <<>>
    /\ last_call = [op |-> "", g |-> 0, subject |-> "", root_types |-> {}]
    /\ calls = 0

\* ---- the function as a step machine
GenIdle ==
    /\ enumerations = <<>> /\ datatypes = <<>> /\ classes = <<>>
    /\ model_subclass_of = <<>> /\ output = <<>> /\ gen_pc = "idle"

SortIdle ==
    /\ children = <<>> /\ in_degree = <<>> /\ queue = <<>> /\ result = <<>>
    /\ reordered_items = <<>> /\ correct_orderings = 0 /\ total_relationships = 0
    /\ pc = "start" /\ steps = 0

SortInit ==
    /\ resources \in DistinctSeqs(Nodes, MaxNodes)
    /\ subclass_of \in DictItems(Nodes, MaxEdges)
    /\ SortIdle
    /\ GenIdle
    /\ DeserIdle
    /\ FieldIdle /\ ModelIdle

\* Lines 332-347: the adjacency list, the in-degrees, the seeded queue.
BuildGraph ==
    /\ pc = "start"
    /\ children' = BuildChildren(resources, subclass_of)
    /\ in_degree' = BuildInDegree(resources, subclass_of)
    /\ queue' = InitialQueue(resources, BuildInDegree(resources, subclass_of))
    /\ result' = <<>>
    /\ pc' = "kahn"
    /\ steps' = steps + 1
    /\ UNCHANGED <<resources, subclass_of, reordered_items, correct_orderings, total_relationships>>
    /\ UNCHANGED otherThanSort

\* Lines 349-358: one iteration of "while queue".
KahnStep ==
    /\ pc = "kahn"
    /\ queue # <<>>
    /\ LET it == KahnIter(queue, result, in_degree, children)
       IN  /\ queue' = it.queue
           /\ result' = it.result
           /\ in_degree' = it.in_degree
    /\ steps' = steps + 1
    /\ UNCHANGED <<resources, subclass_of, children, reordered_items,
                   correct_orderings, total_relationships, pc>>
    /\ UNCHANGED otherThanSort

\* Lines 360-365: the loop has ended; unvisited resources are appended.
CycleCheck ==
    /\ pc = "kahn"
    /\ queue = <<>>
    /\ result' = CycleFallback(resources, result)
    /\ pc' = "verify"
    /\ steps' = steps + 1
    /\ UNCHANGED <<resources, subclass_of, children, in_degree, queue,
                   reordered_items, correct_orderings, total_relationships>>
    /\ UNCHANGED otherThanSort

\* Lines 367-411: the verification pass, then "return result".
Verify ==
    /\ pc = "verify"
    /\ LET v == VerifyItems(RestrictedItems(resources, subclass_of), resources, result, VerifyStart)
       IN  /\ reordered_items' = v.reordered_items
           /\ correct_orderings' = v.correct_orderings
           /\ total_relationships' = v.total_relationships
    /\ pc' = "done"
    /\ steps' = steps + 1
    /\ UNCHANGED <<resources, subclass_of, children, in_degree, queue, result>>
    /\ UNCHANGED otherThanSort

SortNext == BuildGraph \/ KahnStep \/ CycleCheck \/ Verify

SpecSort == SortInit /\ [][SortNext]_vars

\* ---------------------------------------------------------------- generate
\* The elements of S in ascending order: a SPARQL result under "order by".
RECURSIVE Ascending(_)
Ascending(S) ==
    IF S = {} THEN <<>>
    ELSE LET m == CHOOSE x \in S : \A y \in S : x <= y
         IN  <<m>> \o Ascending(S \ {m})

\* No supertype: the class is declared "(RDFModel, metaclass=ABCMeta)", an
\* enumeration "(str, Enum)".
NoBase == 0

\* generate_resource: "class <name>(<rdfs:subClassOf, when the resource has one>)".
GenerateResource(sub, r) ==
    LET mine == SelectSeq(sub, LAMBDA e : e[1] = r)
    IN  [name |-> r, base |-> IF mine = <<>> THEN NoBase ELSE mine[1][2]]

\* generate_enumerations: one "class <label>(str, Enum)" per enumeration.
GenerateEnumeration(r) == [name |-> r, base |-> NoBase]

\* generate_datatypes / generate_classes: the resources of one set, sorted by
\* topological_sort_resources over the whole subclass-of map, each compiled.
GenerateSorted(res, sub) ==
    LET sorted_resources == TopologicalSort(res, sub)
    IN  [i \in 1..Len(sorted_resources) |-> GenerateResource(sub, sorted_resources[i])]

\* The ontology: every resource is an enumeration, a structured datatype, a
\* class or none of them; every resource has at most one rdfs:subClassOf.
GenInit ==
    /\ \E kind \in [Nodes -> {"enumeration", "datatype", "class", "other"}] :
          /\ enumerations = Ascending({n \in Nodes : kind[n] = "enumeration"})
          /\ datatypes = Ascending({n \in Nodes : kind[n] = "datatype"})
          /\ classes = Ascending({n \in Nodes : kind[n] = "class"})
    /\ \E parent \in [Nodes -> Nodes \cup {NoBase}] :
          LET kids == Ascending({n \in Nodes : parent[n] # NoBase})
          IN  model_subclass_of = [i \in 1..Len(kids) |-> <<kids[i], parent[kids[i]]>>]
    /\ output = <<>>
    /\ gen_pc = "header"
    /\ resources = <<>> /\ subclass_of = <<>> /\ SortIdle
    /\ DeserIdle
    /\ FieldIdle /\ ModelIdle

\* Lines 35-37: the import preamble.
GenerateHeader ==
    /\ gen_pc = "header"
    /\ gen_pc' = "enumerations"
    /\ UNCHANGED <<enumerations, datatypes, classes, model_subclass_of, output>>
    /\ UNCHANGED otherThanGen

\* Lines 38-41.
GenerateEnumerations ==
    /\ gen_pc = "enumerations"
    /\ output' = output \o [i \in 1..Len(enumerations) |-> GenerateEnumeration(enumerations[i])]
    /\ gen_pc' = "datatypes"
    /\ UNCHANGED <<enumerations, datatypes, classes, model_subclass_of>>
    /\ UNCHANGED otherThanGen

\* Lines 42-45 and 64-73.
GenerateDatatypes ==
    /\ gen_pc = "datatypes"
    /\ output' = output \o GenerateSorted(datatypes, model_subclass_of)
    /\ gen_pc' = "classes"
    /\ UNCHANGED <<enumerations, datatypes, classes, model_subclass_of>>
    /\ UNCHANGED otherThanGen

\* Lines 46-51 and 53-62.
GenerateClasses ==
    /\ gen_pc = "classes"
    /\ output' = output \o GenerateSorted(classes, model_subclass_of)
    /\ gen_pc' = "done"
    /\ UNCHANGED <<enumerations, datatypes, classes, model_subclass_of>>
    /\ UNCHANGED otherThanGen

GenNext == GenerateHeader \/ GenerateEnumerations \/ GenerateDatatypes \/ GenerateClasses

SpecGen == GenInit /\ [][GenNext]_vars

\* The ontology's subclass-of relation has no cycle: every chain of parents ends.
RECURSIVE GenUp(_, _)
GenUp(n, k) ==
    IF k = 0 THEN n
    ELSE LET mine == SelectSeq(model_subclass_of, LAMBDA e : e[1] = n)
         IN  IF mine = <<>> THEN NoBase ELSE GenUp(mine[1][2], k - 1)
GenAcyclic == \A n \in Nodes : GenUp(n, MaxNodes) = NoBase

\* C6: in the artifact generate writes, every type that declares a supertype
\* comes after that supertype, also when one is a structured datatype and the
\* other a class.  Stated for ontologies whose subclass-of relation is acyclic.
C6_SupertypeFirstInArtifact ==
    (gen_pc = "done" /\ GenAcyclic) =>
        \A i, j \in 1..Len(output) :
            output[i].base = output[j].name => j < i

\* ---------------------------------------------------------- generate_field
\* maxOccurs and minOccurs are written with the numbers 0..MaxCount.
MaxCount == 3
\* A range list holds at most MaxRanges names.
MaxRanges == 2

\* The strings int() parses, and int() of such a string.
NumericStrings == {ToString(n) : n \in 0..MaxCount}
IntOf(str) == CHOOSE n \in 0..MaxCount : ToString(n) = str

\* get_resource_attribute_cardinality: an empty dict when the schema has no
\* element for the attribute, else its minOccurs, maxOccurs and the display
\* form "min..max" ("min..*" for unbounded).
GetResourceAttributeCardinality(entry) ==
    IF ~entry.found THEN EmptyDict
    ELSE ("minOccurs" :> <<entry.minOccurs>>) @@ ("maxOccurs" :> <<entry.maxOccurs>>) @@
         ("display" :> IF entry.maxOccurs # "unbounded"
                       THEN <<entry.minOccurs, "..", entry.maxOccurs>>
                       ELSE <<entry.minOccurs, "..*">>)

\* cardinality.get(key) for the keys minOccurs and maxOccurs.
Occurs(cardinality, key) ==
    IF key \in DOMAIN cardinality THEN cardinality[key][1] ELSE None

\* The Python types of the recognised xsd types.
XsdTypes ==
    ("string" :> "Union[str, LiteralField]") @@ ("integer" :> "int") @@ ("boolean" :> "bool") @@
    ("date" :> "Union[date, datetime]") @@ ("dateTime" :> "Union[date, datetime]") @@
    ("decimal" :> "float") @@ ("double" :> "float") @@
    ("language" :> "Union[str, LiteralField]") @@ ("anyURI" :> "Union[str, LiteralField]")

Mapped(python_type) == [tag |-> "ok", exc |-> "", python_type |-> python_type]
Unmapped(exc) == [tag |-> "raise", exc |-> exc, python_type |-> <<>>]

\* Mutant: an unknown xsd type or prefix maps to a placeholder type.
RangeToPythonTypeSinglePlaceholder(parts) ==
    IF Len(parts) # 2 THEN Mapped(<<"Any">>)
    ELSE IF parts[1] = "xsd"
    THEN IF parts[2] \in DOMAIN XsdTypes THEN Mapped(<<XsdTypes[parts[2]]>>) ELSE Mapped(<<"Any">>)
    ELSE IF parts[1] = "cdi" THEN Mapped(<<parts[2]>>)
    ELSE Mapped(<<"Any">>)

\* range_to_python_type, the branch for a single range (lines 290-317): the
\* unpacking of split(":") needs exactly two parts.
RangeToPythonTypeSingle(parts) ==
    IF Len(parts) # 2 THEN Unmapped("ValueError")
    ELSE IF parts[1] = "xsd"
    THEN IF parts[2] \in DOMAIN XsdTypes THEN Mapped(<<XsdTypes[parts[2]]>>)
         ELSE Unmapped("ValueError")
    ELSE IF parts[1] = "cdi" THEN Mapped(<<parts[2]>>)
    ELSE Unmapped("ValueError")

\* ", ".join(ranges)
RECURSIVE Join(_)
Join(types) ==
    IF types = <<>> THEN <<>>
    ELSE IF Len(types) = 1 THEN Head(types)
    ELSE Head(types) \o <<", ">> \o Join(Tail(types))

\* range_to_python_type: a list of one range gives that range's type, a longer
\* list the Union of the types, anything unmappable raises.
RangeToPythonType(range) ==
    IF range.kind = "none" THEN Unmapped("AttributeError")
    ELSE IF range.kind = "str" THEN RangeToPythonTypeSingle(range.parts)
    ELSE IF Len(range.items) = 1 THEN RangeToPythonTypeSingle(range.items[1])
    ELSE IF \E i \in 1..Len(range.items) : RangeToPythonTypeSingle(range.items[i]).tag = "raise"
    THEN Unmapped("ValueError")
    ELSE Mapped(<<"Union[">>
                \o Join([i \in 1..Len(range.items) |-> RangeToPythonTypeSingle(range.items[i]).python_type])
                \o <<"]">>)

\* Mutant: the optional mark is applied before the list wrap.
WrapTypeOptionalFirst(python_type, is_list, is_optional) ==
    (IF is_list THEN <<"list[">> ELSE <<>>)
    \o python_type
    \o (IF is_optional THEN <<" | None">> ELSE <<>>)
    \o (IF is_list THEN <<"]">> ELSE <<>>)

\* Lines 86-91: list[...] around the type, then " | None" after it.
WrapType(python_type, is_list, is_optional) ==
    (IF is_list THEN <<"list[">> ELSE <<>>)
    \o python_type
    \o (IF is_list THEN <<"]">> ELSE <<>>)
    \o (IF is_optional THEN <<" | None">> ELSE <<>>)

\* Lines 104-111: the rdf_type of json_schema_extra; startswith is a method
\* of str only.
RdfType(range) ==
    IF range.kind # "str" THEN Unmapped("AttributeError")
    ELSE IF range.parts[1] = "cdi" THEN Mapped(<<"CDI.">> \o Tail(range.parts))
    ELSE IF range.parts[1] = "xsd" THEN Mapped(<<"\"">> \o range.parts \o <<"\"">>)
    ELSE Unmapped("ValueError")

\* generate_field(resource, cardinality), in the order of its statements.
GenerateField(range, cardinality) ==
    IF RangeToPythonType(range).tag = "raise" THEN Raises(RangeToPythonType(range).exc)
    ELSE IF Occurs(cardinality, "maxOccurs") = None THEN Raises("TypeError")
    ELSE IF Occurs(cardinality, "maxOccurs") # "unbounded"
            /\ Occurs(cardinality, "maxOccurs") \notin NumericStrings THEN Raises("ValueError")
    ELSE IF RdfType(range).tag = "raise" THEN Raises(RdfType(range).exc)
    ELSE FieldCode(
            WrapType(RangeToPythonType(range).python_type,
                     \/ Occurs(cardinality, "maxOccurs") = "unbounded"
                     \/ IntOf(Occurs(cardinality, "maxOccurs")) > 1,
                     Occurs(cardinality, "minOccurs") = "0"),
            IF Occurs(cardinality, "minOccurs") = "0" THEN "None" ELSE "",
            RdfType(range).python_type)

\* The single ranges an attribute may declare: recognised xsd types, a cdi
\* resource, an unknown xsd type, an unknown prefix, a name without prefix.
SingleRanges ==
    {<<"xsd", t>> : t \in DOMAIN XsdTypes} \cup
    {<<"cdi", "K">>, <<"xsd", "token">>, <<"rdf", "langString">>, <<"K">>}
\* The names that occur in range lists.
ListedRanges == {<<"xsd", "integer">>, <<"xsd", "string">>, <<"cdi", "K">>, <<"xsd", "token">>}

Ranges ==
    {NoRange} \cup {StrRange(r) : r \in SingleRanges}
    \cup {ListRange(l) : l \in DistinctSeqs(ListedRanges, MaxRanges) \ {<<>>}}

SchemaEntries ==
    {NoEntry} \cup {Entry(lo, hi) : lo \in NumericStrings \cup {None},
                                    hi \in NumericStrings \cup {None, "unbounded"}}

\* generate_resource reaches a domain attribute of the class.
FieldInit ==
    /\ \E r \in Ranges, en \in SchemaEntries :
          field_run = [pc |-> "attribute", range |-> r, entry |-> en,
                       cardinality |-> EmptyDict, code |-> NoField]
    /\ resources = <<>> /\ subclass_of = <<>> /\ SortIdle /\ GenIdle /\ DeserIdle /\ ModelIdle

\* cardinality = model.get_resource_attribute_cardinality(resource_uri, attribute_uri)
LookupCardinality ==
    /\ field_run.pc = "attribute"
    /\ field_run' = [field_run EXCEPT !.pc = "cardinality",
                        !.cardinality = GetResourceAttributeCardinality(field_run.entry)]
    /\ UNCHANGED otherThanField

\* code += indent_code(generate_field(attribute, cardinality), 1)
WriteField ==
    /\ field_run.pc = "cardinality"
    /\ field_run' = [field_run EXCEPT !.pc = "done",
                        !.code = GenerateField(field_run.range, field_run.cardinality)]
    /\ UNCHANGED otherThanField

FieldNext == LookupCardinality \/ WriteField

SpecField == FieldInit /\ [][FieldNext]_vars

\* ------------------------------------------------------------ DdiCdiModel
\* The classes of the ontology: Sub rdfs:subClassOf Base.
OntologyClasses == {"Base", "Sub"}

\* get_resource_superclasses: the classes reached by rdfs:subClassOf*.
GetResourceSuperclasses(resource_uri) ==
    IF resource_uri = "Sub" THEN <<"Base">> ELSE <<>>

\* The prefixed URI "cdi:<owner>-<local>" of an attribute (or
\* "cdi:<owner>_<local>" of an association), kept as the parts that the
\* split on "-" (or "_") gives.
Uri(owner, local) == [owner |-> owner, local |-> local]

\* rdfs:label values, written as their pieces so that "for" followed by "_"
\* is the same text as "for_".
Labels == {<<"x">>, <<"for">>, <<"for", "_">>}

\* A ucmis:Attribute or ucmis:Association with its rdfs:domain values and
\* its rdfs:label.
Property(uri, domains, label) == [uri |-> uri, domains |-> domains, label |-> label]

\* The attributes an ontology may hold, in the order the queries return
\* them: Base-x, declared for Base or for Base and Sub, and Sub-x.
AttributeLists ==
    {b \o c :
        b \in {<<>>} \cup {<<Property(Uri("Base", "x"), d, l)>> :
                              d \in {{"Base"}, {"Base", "Sub"}}, l \in Labels},
        c \in {<<>>} \cup {<<Property(Uri("Sub", "x"), {"Sub"}, l)>> : l \in Labels}}

\* The associations it may hold: Sub_r, declared from Base or from Sub.
AssociationLists ==
    {<<>>} \cup {<<Property(Uri("Sub", "r"), {d}, l)>> :
                    d \in OntologyClasses, l \in {<<"x">>, <<"for", "_">>}}

\* The XML schema: the xs:element, if any, with a given xml:id inside the
\* xs:complexType of a given class.
XmlKeys ==
    {<<"Base", Uri("Base", "x")>>, <<"Sub", Uri("Base", "x")>>, <<"Sub", Uri("Sub", "x")>>}
XmlSchemas == [XmlKeys -> {NoEntry, Entry("0", "1"), Entry("1", "unbounded")}]

\* self.xml.findall(xpath): the first element found, if any.
XmlFind(xml, type_name, element_id) ==
    IF <<type_name, element_id>> \in DOMAIN xml THEN xml[<<type_name, element_id>>] ELSE NoEntry

\* Lines 332-333: the name of the complexType that is searched:
\* attribute_uri.split(":")[-1].split("-")[0].
TypeNameOf(resource_uri, attribute_uri) == attribute_uri.owner

\* get_resource_attribute_cardinality(resource_uri, attribute_uri)
ResourceAttributeCardinality(o, resource_uri, attribute_uri) ==
    GetResourceAttributeCardinality(
        XmlFind(o.xml, TypeNameOf(resource_uri, attribute_uri), attribute_uri))

\* get_resource_ucmis_domain_attributes: the attributes whose rdfs:domain
\* is the resource.
GetResourceUcmisDomainAttributes(o, resource_uri) ==
    SelectSeq(o.attributes, LAMBDA a : resource_uri \in a.domains)

\* Lines 363-372: the entry of one attribute; 'inherited' is set to False
\* only when the inherited flag was passed.
AttributeEntry(o, resource_uri, a, inherited) ==
    [uri |-> a.uri, label |-> a.label,
     cardinality |-> ResourceAttributeCardinality(o, resource_uri, a.uri),
     inherited |-> IF inherited THEN "False" ELSE "absent",
     inherited_from |-> ""]

\* attributes[key] = entry on a dict kept as the sequence of its values in
\* insertion order: an existing key keeps its place and takes the new value.
DictSet(d, entry) ==
    IF \E i \in 1..Len(d) : d[i].uri = entry.uri
    THEN [i \in 1..Len(d) |-> IF d[i].uri = entry.uri THEN entry ELSE d[i]]
    ELSE Append(d, entry)

RECURSIVE InsertAll(_, _)
InsertAll(d, entries) ==
    IF entries = <<>> THEN d
    ELSE InsertAll(DictSet(d, Head(entries)), Tail(entries))

\* Lines 351-372: the loop over the resource's own attributes.
OwnDomainAttributes(o, resource_uri, inherited) ==
    InsertAll(<<>>,
        [i \in 1..Len(GetResourceUcmisDomainAttributes(o, resource_uri)) |->
            AttributeEntry(o, resource_uri,
                           GetResourceUcmisDomainAttributes(o, resource_uri)[i], inherited)])

\* Lines 378-379
MarkInherited(entry, superclass_uri) ==
    [entry EXCEPT !.inherited = "True", !.inherited_from = superclass_uri]

\* Lines 375-380: the attributes of every superclass are stored after the
\* resource's own.
RECURSIVE InheritFrom(_, _, _)
InheritFrom(o, superclasses, d) ==
    IF superclasses = <<>> THEN d
    ELSE InheritFrom(o, Tail(superclasses),
            InsertAll(d,
                [i \in 1..Len(OwnDomainAttributes(o, Head(superclasses), FALSE)) |->
                    MarkInherited(OwnDomainAttributes(o, Head(superclasses), FALSE)[i],
                                  Head(superclasses))]))

\* get_resource_domain_attributes(resource_uri, inherited=inherited)
GetResourceDomainAttributes(o, resource_uri, inherited) ==
    IF inherited
    THEN InheritFrom(o, GetResourceSuperclasses(resource_uri),
                     OwnDomainAttributes(o, resource_uri, TRUE))
    ELSE OwnDomainAttributes(o, resource_uri, FALSE)

\* get_resource_associations_from(resource_uri, inherited=False,
\* cardinalities=True): the associations whose rdfs:domain is the resource;
\* the schema holds a 'from' cardinality for each of them.
GetResourceAssociationsFrom(o, resource_uri) ==
    SelectSeq(o.associations, LAMBDA a : resource_uri \in a.domains)

\* generate_field, lines 79-83: the field name is the label, with "_"
\* appended to for, from and construct.
FieldName(label) ==
    IF label \in {<<"for">>, <<"from">>, <<"construct">>} THEN Append(label, "_") ELSE label

\* The range of the attributes of this ontology.
StringRange == StrRange(<<"xsd", "string">>)

\* Lines 211-213: generate_field for one domain attribute; an exception of
\* generate_field leaves generate_resource.
WriteAttribute(code, attribute, field) ==
    IF field.tag = "raise" THEN [tag |-> "raise", exc |-> field.exc, fields |-> <<>>]
    ELSE [code EXCEPT !.fields = Append(@, FieldName(attribute.label))]

\* Lines 208-214: the loop over the domain attributes.
RECURSIVE WriteAttributes(_, _, _, _)
WriteAttributes(o, resource_uri, attributes, code) ==
    IF attributes = <<>> \/ code.tag = "raise" THEN code
    ELSE WriteAttributes(o, resource_uri, Tail(attributes),
            WriteAttribute(code, Head(attributes),
                GenerateField(StringRange,
                    ResourceAttributeCardinality(o, resource_uri, Head(attributes).uri))))

\* Lines 216-222: the loop over the from-associations.
WriteAssociations(code, associations) ==
    IF code.tag = "raise" THEN code
    ELSE [code EXCEPT !.fields =
            @ \o [i \in 1..Len(associations) |-> FieldName(associations[i].label)]]

\* generate_resource(model, resource_uri): the fields of the class it
\* writes, domain attributes first, then from-associations.
GenerateResourceFields(o, resource_uri) ==
    WriteAssociations(
        WriteAttributes(o, resource_uri, GetResourceDomainAttributes(o, resource_uri, FALSE),
                        [tag |-> "code", exc |-> "", fields |-> <<>>]),
        GetResourceAssociationsFrom(o, resource_uri))

\* An ontology model was loaded.
ModelInit ==
    /\ \E a \in AttributeLists, r \in AssociationLists, x \in XmlSchemas :
          ontology = [attributes |-> a, associations |-> r, xml |-> x]
    /\ model_run = NoQuery
    /\ resources = <<>> /\ subclass_of = <<>> /\ SortIdle /\ GenIdle /\ DeserIdle
    /\ FieldIdle

\* model.get_resource_domain_attributes(resource_uri, inherited=inherited)
QueryDomainAttributes ==
    /\ \E resource_uri \in OntologyClasses, inherited \in BOOLEAN :
          model_run' = [NoQuery EXCEPT !.op = "get_resource_domain_attributes",
                           !.resource = resource_uri, !.inherited = inherited,
                           !.attributes = GetResourceDomainAttributes(ontology, resource_uri, inherited)]
    /\ UNCHANGED ontology
    /\ UNCHANGED otherThanModel

\* model.get_resource_attribute_cardinality(resource_uri, attribute_uri)
QueryAttributeCardinality ==
    /\ \E resource_uri \in OntologyClasses, i \in 1..Len(ontology.attributes) :
          model_run' = [NoQuery EXCEPT !.op = "get_resource_attribute_cardinality",
                           !.resource = resource_uri, !.attribute = ontology.attributes[i].uri,
                           !.type_name = TypeNameOf(resource_uri, ontology.attributes[i].uri),
                           !.cardinality = ResourceAttributeCardinality(ontology, resource_uri,
                                                                        ontology.attributes[i].uri)]
    /\ UNCHANGED ontology
    /\ UNCHANGED otherThanModel

\* generate_resource(model, resource_uri)
CompileResource ==
    /\ \E resource_uri \in OntologyClasses :
          model_run' = [NoQuery EXCEPT !.op = "generate_resource", !.resource = resource_uri,
                           !.code = GenerateResourceFields(ontology, resource_uri)]
    /\ UNCHANGED ontology
    /\ UNCHANGED otherThanModel

ModelNext == QueryDomainAttributes \/ QueryAttributeCardinality \/ CompileResource

SpecModel == ModelInit /\ [][ModelNext]_vars

\* --------------------------------------------------- SemPyRODeserializer
\* Subject IRIs that occur in the graphs.
Subjects == {"s1", "s2", "s3"}

\* At most MaxRefs triples of a graph have a mapped predicate.
MaxRefs == 2
\* Depth of nested deserialize_subject calls at which the interpreter raises
\* RecursionError; deeper than any chain of distinct subjects.
RecursionLimit == 4

\* A subject has at most MaxValues triples on mapped predicates in the graphs
\* that exercise the field extraction.
MaxValues == 3
\* That subject declares at most MaxTypes rdf:type values.
MaxTypes == 2

\* The model module handed to the deserializer: two classes with an ontology
\* IRI and one without.  The classes as the schema compiler writes them:
\*   class K:  ref:  K | None       = Field(default=None, rdf_term=P)
\*             refs: list[K] | None = Field(default=None, rdf_term=Q)
\*   class M:  req:  K              = Field(rdf_term=P)
\*             refs: list[K] | None = Field(default=None, rdf_term=Q)
\* A member of a module: its name, whether it is a class derived from
\* BaseModel, and the '$IRI' entries of its model_config and of the
\* json_schema_extra of its model_config (<<>> when the key is absent).
Member(name, model, config, extra) ==
    [name |-> name, model |-> model, config |-> config, extra |-> extra]

ModuleClasses ==
    << Member("K", TRUE, <<>>, <<"iri:K">>),
       Member("M", TRUE, <<>>, <<"iri:M">>),
       Member("Plain", TRUE, <<>>, <<>>) >>
NoClass == ""
\* The caller serialized nothing.
NoOriginal == [cls |-> NoClass, label |-> <<>>, names |-> <<>>]

ModelFields(cls) ==
    IF cls = "K"
    THEN << [name |-> "ref",  rdf_term |-> "P", is_list |-> FALSE, required |-> FALSE, inner |-> "model"],
            [name |-> "refs", rdf_term |-> "Q", is_list |-> TRUE,  required |-> FALSE, inner |-> "model"] >>
    ELSE IF cls = "M"
    THEN << [name |-> "req",  rdf_term |-> "P", is_list |-> FALSE, required |-> TRUE,  inner |-> "model"],
            [name |-> "refs", rdf_term |-> "Q", is_list |-> TRUE,  required |-> FALSE, inner |-> "model"] >>
    ELSE IF cls = "V"
    THEN << [name |-> "label", rdf_term |-> "P", is_list |-> FALSE, required |-> FALSE, inner |-> "str"],
            [name |-> "names", rdf_term |-> "Q", is_list |-> TRUE,  required |-> FALSE, inner |-> "model"] >>
    ELSE IF cls = "N"
    THEN << [name |-> "name",  rdf_term |-> "P", is_list |-> FALSE, required |-> FALSE, inner |-> "str"] >>
    ELSE <<>>

Predicates == {"P", "Q"}
\* The rdf:type lists a subject may carry in a graph, in graph order:
\* untyped, the registered class, one or two IRIs that no class carries.
TypeLists == {<<>>, <<"iri:K">>, <<"iri:U">>, <<"iri:U", "iri:V">>}

\* RDF nodes and Python values.
UriNode(v) == [kind |-> "uri", v |-> v]
LitNode(v) == [kind |-> "lit", v |-> v]
InstValue(id) == [kind |-> "inst", id |-> id, v |-> ""]
StrValue(v) == [kind |-> "str", id |-> 0, v |-> v]

\* graph.objects(subject, predicate) for the triples ts, in triple order.
ObjectsOf(ts) ==
    [sp \in Subjects \X Predicates |->
        LET mine == SelectSeq(ts, LAMBDA t : t[1] = sp[1] /\ t[2] = sp[2])
        IN  [i \in 1..Len(mine) |-> UriNode(mine[i][3])]]

\* The graphs with type lists from tls and at most n triples on mapped
\* predicates.
Graphs(tls, n) ==
    {[types |-> ty, objects |-> ObjectsOf(ts)] :
        ty \in [Subjects -> tls],
        ts \in DistinctSeqs(Subjects \X Predicates \X Subjects, n)}

\* Lines 80-86: the '$IRI' of model_config when the key is there, else the
\* one of json_schema_extra, else None (written "").
IriOf(m) ==
    IF m.config # <<>> THEN m.config[1]
    ELSE IF m.extra # <<>> THEN m.extra[1]
    ELSE ""

\* Mutant: an IRI that is registered already keeps its class.
RegisterClassKeepingFirst(registry, m) ==
    IF m.model /\ IriOf(m) # "" /\ IriOf(m) \notin DOMAIN registry
    THEN [x \in DOMAIN registry \cup {IriOf(m)} |->
            IF x = IriOf(m) THEN m.name ELSE registry[x]]
    ELSE registry

\* Lines 74-75, 96-97: a model class with a non-empty IRI is stored under
\* the IRI, replacing what was stored under it.
RegisterClass(registry, m) ==
    IF m.model /\ IriOf(m) # ""
    THEN [x \in DOMAIN registry \cup {IriOf(m)} |->
            IF x = IriOf(m) THEN m.name ELSE registry[x]]
    ELSE registry

\* Line 73: the loop over inspect.getmembers(self.module).
RECURSIVE RegisterMembers(_, _)
RegisterMembers(members, registry) ==
    IF members = <<>> THEN registry
    ELSE RegisterMembers(Tail(members), RegisterClass(registry, Head(members)))

\* _build_class_registry
BuildClassRegistry(members) == RegisterMembers(members, EmptyDict)

\* get_class_for_type: self.class_registry.get(str(rdf_type))
GetClassForType(registry, rdf_type) ==
    IF rdf_type \in DOMAIN registry THEN registry[rdf_type] ELSE NoClass

\* Mutant: the class of the last declared type that has one.
RECURSIVE LastRegistered(_, _)
LastRegistered(registry, rdf_types) ==
    IF rdf_types = <<>> THEN NoClass
    ELSE IF LastRegistered(registry, Tail(rdf_types)) # NoClass
         THEN LastRegistered(registry, Tail(rdf_types))
         ELSE IF Head(rdf_types) \in DOMAIN registry THEN registry[Head(rdf_types)] ELSE NoClass

\* Lines 187-192: the class of the first declared type that has one.
RECURSIVE FirstRegistered(_, _)
FirstRegistered(registry, rdf_types) ==
    IF rdf_types = <<>> THEN NoClass
    ELSE IF GetClassForType(registry, Head(rdf_types)) # NoClass
         THEN GetClassForType(registry, Head(rdf_types))
         ELSE FirstRegistered(registry, Tail(rdf_types))

\* Mutant: the constructed instance is not put into the cache.
CacheInsertSkipped(cache, subject_str, id) == cache

\* self.instances[subject_str] = instance
CacheInsert(cache, subject_str, id) ==
    [x \in DOMAIN cache \cup {subject_str} |-> IF x = subject_str THEN id ELSE cache[x]]

\* python_class(**field_values): Pydantic accepts the values when every
\* required field is present and every value of a model-typed field is a
\* model instance.
CanInstantiate(cls, field_values) ==
    \A i \in 1..Len(ModelFields(cls)) :
        LET f == ModelFields(cls)[i]
        IN  IF f.name \in DOMAIN field_values
            THEN \A k \in 1..Len(field_values[f.name]) :
                    field_values[f.name][k].kind = IF f.inner = "model" THEN "inst" ELSE "str"
            ELSE ~f.required

\* Outcomes of deserialize_subject.
Outcome(st, tag, id, types) == [st |-> st, tag |-> tag, id |-> id, types |-> types]

RECURSIVE deserialize_subject(_, _, _, _)

\* Mutant: _convert_value turns every exception of the nested call into None.
NestedValueCatchingAll(r) ==
    IF r.tag = "instance"
    THEN [st |-> r.st, tag |-> "value", value |-> InstValue(r.id)]
    ELSE [st |-> r.st, tag |-> "None", value |-> StrValue("")]

\* Lines 386-393: what _convert_value makes of the nested call: the
\* instance, or None when it returned None or raised
\* SemPyRODeserializationError; any other exception passes through.
NestedValue(r) ==
    CASE r.tag = "instance"  -> [st |-> r.st, tag |-> "value", value |-> InstValue(r.id)]
      [] r.tag = "recursion" -> [st |-> r.st, tag |-> "recursion", value |-> StrValue("")]
      [] OTHER               -> [st |-> r.st, tag |-> "None", value |-> StrValue("")]

\* _convert_value: a Literal becomes its Python value; a URIRef with an
\* rdf:type in the graph is deserialized, any other URIRef is returned as its
\* string.
ConvertValue(ctx, value, st, depth) ==
    IF value.kind = "lit" THEN [st |-> st, tag |-> "value", value |-> StrValue(value.v)]
    ELSE IF ctx.g.types[value.v] # <<>>
    THEN NestedValue(deserialize_subject(ctx, value.v, st, depth + 1))
    ELSE [st |-> st, tag |-> "value", value |-> StrValue(value.v)]

\* Mutant: a converted value is put in front of the list.
PrependConverted(acc, c) ==
    [st |-> c.st,
     tag |-> IF c.tag = "recursion" THEN "recursion" ELSE "ok",
     converted_values |-> IF c.tag = "value" THEN <<c.value>> \o acc.converted_values
                          ELSE acc.converted_values]

\* Lines 244-246: a converted value is appended unless it is None.
AppendConverted(acc, c) ==
    [st |-> c.st,
     tag |-> IF c.tag = "recursion" THEN "recursion" ELSE "ok",
     converted_values |-> IF c.tag = "value" THEN Append(acc.converted_values, c.value)
                          ELSE acc.converted_values]

\* Lines 242-246: the loop over the values of a field; acc carries the
\* deserializer state and the values converted so far.
RECURSIVE ConvertList(_, _, _, _)
ConvertList(ctx, values, depth, acc) ==
    IF values = <<>> \/ acc.tag = "recursion" THEN acc
    ELSE ConvertList(ctx, Tail(values), depth,
                     AppendConverted(acc, ConvertValue(ctx, Head(values), acc.st, depth)))

\* Mutant: every object of the field's rdf_term is converted.
FieldObjectsAll(g, subject, f) ==
    IF f.rdf_term = "" THEN <<>> ELSE g.objects[<<subject, f.rdf_term>>]

\* Mutant: only the first object of the field's rdf_term is converted.
FieldObjectsFirst(g, subject, f) ==
    IF f.rdf_term = "" \/ g.objects[<<subject, f.rdf_term>>] = <<>> THEN <<>>
    ELSE <<g.objects[<<subject, f.rdf_term>>][1]>>

\* Lines 228-240: the objects of the field's rdf_term that are converted:
\* all of them for a list field, the first one for a scalar field.
FieldObjects(g, subject, f) ==
    IF f.rdf_term = "" \/ g.objects[<<subject, f.rdf_term>>] = <<>> THEN <<>>
    ELSE IF f.is_list THEN g.objects[<<subject, f.rdf_term>>]
    ELSE <<g.objects[<<subject, f.rdf_term>>][1]>>

\* Lines 247-253: the field is set when a value was converted.  A field's
\* value is kept as the sequence of its converted values (one for a scalar).
SetField(f, acc, c) ==
    [st |-> c.st,
     tag |-> c.tag,
     field_values |-> IF c.tag = "ok" /\ c.converted_values # <<>>
                      THEN (f.name :> c.converted_values) @@ acc.field_values
                      ELSE acc.field_values]

\* _extract_field_values: the loop over python_class.model_fields; acc
\* carries the deserializer state and the field values found so far.
RECURSIVE ExtractFieldValues(_, _, _, _, _)
ExtractFieldValues(ctx, subject, fields, depth, acc) ==
    IF fields = <<>> \/ acc.tag = "recursion" THEN acc
    ELSE ExtractFieldValues(ctx, subject, Tail(fields), depth,
            SetField(Head(fields), acc,
                     ConvertList(ctx, FieldObjects(ctx.g, subject, Head(fields)), depth,
                                 [st |-> acc.st, tag |-> "ok", converted_values |-> <<>>])))

\* Mutant: a subject whose instantiation failed is cached all the same.
ConstructCachingFailure(ctx, subject, python_class, ex) ==
    IF ex.tag = "recursion" THEN Outcome(ex.st, "recursion", 0, <<>>)
    ELSE IF ~CanInstantiate(python_class, ex.field_values)
    THEN Outcome([instances |-> CacheInsert(ex.st.instances, subject, 0), heap |-> ex.st.heap],
                 "error", 0, <<>>)
    ELSE Outcome([instances |-> CacheInsert(ex.st.instances, subject, Len(ex.st.heap) + 1),
                  heap |-> Append(ex.st.heap,
                                  [subject |-> subject, cls |-> python_class,
                                   fields |-> ex.field_values,
                                   call |-> ctx.call, src |-> ctx.src])],
                 "instance", Len(ex.st.heap) + 1, <<>>)

\* Lines 202-210: construct the instance and cache it, or raise.
Construct(ctx, subject, python_class, ex) ==
    IF ex.tag = "recursion" THEN Outcome(ex.st, "recursion", 0, <<>>)
    ELSE IF ~CanInstantiate(python_class, ex.field_values) THEN Outcome(ex.st, "error", 0, <<>>)
    ELSE Outcome([instances |-> CacheInsert(ex.st.instances, subject, Len(ex.st.heap) + 1),
                  heap |-> Append(ex.st.heap,
                                  [subject |-> subject, cls |-> python_class,
                                   fields |-> ex.field_values,
                                   call |-> ctx.call, src |-> ctx.src])],
                 "instance", Len(ex.st.heap) + 1, <<>>)

\* deserialize_subject(graph, subject), with st = [instances, heap] threaded
\* through the nested calls.
deserialize_subject(ctx, subject, st, depth) ==
    IF depth > RecursionLimit THEN Outcome(st, "recursion", 0, <<>>)
    ELSE IF subject \in DOMAIN st.instances
    THEN Outcome(st, "instance", st.instances[subject], <<>>)
    ELSE IF ctx.g.types[subject] = <<>> THEN Outcome(st, "None", 0, <<>>)
    ELSE IF FirstRegistered(ctx.registry, ctx.g.types[subject]) = NoClass
    THEN Outcome(st, "error", 0, ctx.g.types[subject])
    ELSE Construct(ctx, subject, FirstRegistered(ctx.registry, ctx.g.types[subject]),
                   ExtractFieldValues(ctx, subject,
                        ModelFields(FirstRegistered(ctx.registry, ctx.g.types[subject])), depth,
                        [st |-> st, tag |-> "ok", field_values |-> EmptyDict]))

\* Lines 136-140: the set of subjects with an rdf:type (in root_types).
NoFilter == {"*"}
SelectedSubjects(g, root_types) ==
    {s \in Subjects : \E i \in 1..Len(g.types[s]) :
        root_types = NoFilter \/ g.types[s][i] \in root_types}

\* Lines 137-138: graph.triples((None, RDF.type, None)) yields the typed
\* subjects in the graph's own order; the subjects are named by it.
TypeTripleSubjects(g) ==
    SelectSeq(<<"s1", "s2", "s3">>, LAMBDA s : g.types[s] # <<>>)

\* Lines 144-151: one subject of the loop: its instance is appended, None
\* is skipped, SemPyRODeserializationError prints a warning; any other
\* exception leaves deserialize.
AfterSubject(subject, acc, r) ==
    [st |-> r.st,
     returned |-> CASE r.tag = "recursion" -> Returned("raise", 0, <<>>, "RecursionError", <<>>)
                    [] r.tag = "instance"  -> Returned("list", 0, Append(acc.returned.items, r.id), "", <<>>)
                    [] OTHER               -> acc.returned,
     warnings |-> IF r.tag = "error" THEN Append(acc.warnings, subject) ELSE acc.warnings]

\* Lines 143-153: the loop over the subjects, in the set's iteration order.
RECURSIVE DeserializeLoop(_, _, _)
DeserializeLoop(ctx, order, acc) ==
    IF order = <<>> \/ acc.returned.kind = "raise" THEN acc
    ELSE DeserializeLoop(ctx, Tail(order),
                         AfterSubject(Head(order), acc,
                                      deserialize_subject(ctx, Head(order), acc.st, 1)))

\* __init__: the registry is built, the cache is empty.
Constructed ==
    /\ module = ModuleClasses
    /\ original = NoOriginal
    /\ class_registry = BuildClassRegistry(module)
    /\ instances = EmptyDict /\ heap = <<>>
    /\ returned = NothingReturned /\ warnings = <<>>
    /\ last_call = [op |-> "", g |-> 0, subject |-> "", root_types |-> {}]
    /\ calls = 0
    /\ resources = <<>> /\ subclass_of = <<>> /\ SortIdle /\ GenIdle
    /\ FieldIdle /\ ModelIdle

\* One deserializer, one graph whose subjects carry at most one rdf:type.
DeserInit ==
    /\ \E g \in Graphs({tl \in TypeLists : Len(tl) <= 1}, MaxRefs) : pool = <<g>>
    /\ Constructed

\* One deserializer used on two graphs without mapped predicates that differ
\* in the rdf:type list of one subject.
CallsInit ==
    /\ \E g1 \in Graphs(TypeLists, 0), s \in Subjects, tl \in TypeLists :
          /\ tl # g1.types[s]
          /\ pool = <<g1, [g1 EXCEPT !.types[s] = tl]>>
    /\ Constructed

Context(gi) == [g |-> pool[gi], src |-> gi, registry |-> class_registry, call |-> calls + 1]

\* Mutant: returning None empties the cache.
SubjectCallEndsClearing(r) ==
    /\ instances' = IF r.tag = "None" THEN EmptyDict ELSE r.st.instances
    /\ heap' = r.st.heap
    /\ returned' =
          CASE r.tag = "instance"  -> Returned("instance", r.id, <<>>, "", <<>>)
            [] r.tag = "None"      -> Returned("None", 0, <<>>, "", <<>>)
            [] r.tag = "error"     -> Returned("raise", 0, <<>>, "SemPyRODeserializationError", r.types)
            [] OTHER               -> Returned("raise", 0, <<>>, "RecursionError", <<>>)

\* The caller sees the instance, None or the exception.
SubjectCallEnds(r) ==
    /\ instances' = r.st.instances
    /\ heap' = r.st.heap
    /\ returned' =
          CASE r.tag = "instance"  -> Returned("instance", r.id, <<>>, "", <<>>)
            [] r.tag = "None"      -> Returned("None", 0, <<>>, "", <<>>)
            [] r.tag = "error"     -> Returned("raise", 0, <<>>, "SemPyRODeserializationError", r.types)
            [] OTHER               -> Returned("raise", 0, <<>>, "RecursionError", <<>>)

\* deserializer.deserialize_subject(graph, subject) called by the user.
DeserializeSubjectCall ==
    /\ calls < Len(pool)
    /\ \E gi \in 1..Len(pool), subject \in Subjects :
          /\ SubjectCallEnds(deserialize_subject(Context(gi), subject,
                                                 [instances |-> instances, heap |-> heap], 1))
          /\ last_call' = [op |-> "deserialize_subject", g |-> gi, subject |-> subject, root_types |-> {}]
    /\ warnings' = <<>>
    /\ calls' = calls + 1
    /\ UNCHANGED <<pool, module, original, class_registry>>
    /\ UNCHANGED otherThanDeser

\* self.instances.clear()
ClearCache(cache) == EmptyDict

RootTypeChoices == {NoFilter, {"iri:K"}}

\* The caller sees the list or the exception.
BatchCallEnds(d) ==
    /\ instances' = d.st.instances
    /\ heap' = d.st.heap
    /\ returned' = d.returned
    /\ warnings' = d.warnings

\* deserializer.deserialize(graph, root_types) called by the user.
DeserializeCall ==
    /\ calls < Len(pool)
    /\ \E gi \in 1..Len(pool), root_types \in RootTypeChoices :
          \E order \in DistinctSeqs(SelectedSubjects(pool[gi], root_types), Cardinality(Subjects)) :
              /\ Len(order) = Cardinality(SelectedSubjects(pool[gi], root_types))
              /\ BatchCallEnds(DeserializeLoop(Context(gi), order,
                                  [st |-> [instances |-> ClearCache(instances), heap |-> heap],
                                   returned |-> Returned("list", 0, <<>>, "", <<>>),
                                   warnings |-> <<>>]))
              /\ last_call' = [op |-> "deserialize", g |-> gi, subject |-> "", root_types |-> root_types]
    /\ calls' = calls + 1
    /\ UNCHANGED <<pool, module, original, class_registry>>
    /\ UNCHANGED otherThanDeser

DeserNext == DeserializeSubjectCall \/ DeserializeCall

\* The rdf:type lists of the subject whose fields are extracted: up to
\* MaxTypes declared types, in graph order, registered or not.
OwnerTypeLists == DistinctSeqs({"iri:K", "iri:M", "iri:U"}, MaxTypes)
\* The rdf:type lists of the subjects it refers to.
ValueTypeLists == {<<>>, <<"iri:K">>, <<"iri:M">>, <<"iri:U">>}

\* One deserializer, one graph in which s1 carries up to MaxValues triples on
\* mapped predicates.
FieldsInit ==
    /\ \E ty1 \in OwnerTypeLists, ty \in [Subjects \ {"s1"} -> ValueTypeLists],
          ts \in DistinctSeqs({"s1"} \X Predicates \X Subjects, MaxValues) :
          pool = <<[types |-> [s \in Subjects |-> IF s = "s1" THEN ty1 ELSE ty[s]],
                    objects |-> ObjectsOf(ts)]>>
    /\ Constructed

SpecDeser == DeserInit /\ [][DeserNext]_vars
SpecCalls == CallsInit /\ [][DeserNext]_vars
SpecFields == FieldsInit /\ [][DeserializeSubjectCall]_vars

\* ---- a round trip: an instance built by the caller, serialized by
\* instance.to_graph(uri), and read back by from_graph(graph, module, subject)
\* The module of the round trip: class N with one string field, class V with
\* a string field and a list field of N.
RoundModule ==
    << Member("N", TRUE, <<>>, <<"iri:N">>),
       Member("V", TRUE, <<>>, <<"iri:V">>) >>
Contents == {"a", "b", "c"}
\* The instances of V the caller builds: label absent or a string, names a
\* list of instances of N given by their name strings; one graph node is left
\* for the instance and one for each nested object.
Originals ==
    {[cls |-> "V", label |-> l, names |-> n] :
        l \in {<<>>} \cup {<<c>> : c \in Contents},
        n \in UNION {[1..k -> Contents] : k \in 0..(Cardinality(Subjects) - 1)}}

\* The node of the k-th nested object of the instance serialized at s1.
NestedNode(k) == <<"s2", "s3">>[k]

\* to_graph: the instance is typed with the IRI of its class and carries one
\* literal for its label and one reference for each nested object; every
\* nested object is a node of its own, typed and carrying its name.  The
\* references are returned by graph.objects in the order perm.
ToGraph(o, perm) ==
    [types |-> [s \in Subjects |->
                   IF s = "s1" THEN <<"iri:V">>
                   ELSE IF \E k \in 1..Len(o.names) : NestedNode(k) = s THEN <<"iri:N">>
                   ELSE <<>>],
     objects |-> [sp \in Subjects \X Predicates |->
                   IF sp = <<"s1", "P">> THEN [i \in 1..Len(o.label) |-> LitNode(o.label[i])]
                   ELSE IF sp = <<"s1", "Q">> THEN [i \in 1..Len(perm) |-> UriNode(NestedNode(perm[i]))]
                   ELSE IF sp[2] = "P" /\ \E k \in 1..Len(o.names) : NestedNode(k) = sp[1]
                   THEN <<LitNode(o.names[CHOOSE k \in 1..Len(o.names) : NestedNode(k) = sp[1]])>>
                   ELSE <<>>]]

\* The caller built an instance, serialized it and constructed a
\* deserializer for the module.
RoundInit ==
    /\ original \in Originals
    /\ \E perm \in DistinctSeqs(1..Len(original.names), Cardinality(Subjects)) :
          /\ Len(perm) = Len(original.names)
          /\ pool = <<ToGraph(original, perm)>>
    /\ module = RoundModule
    /\ class_registry = BuildClassRegistry(module)
    /\ instances = EmptyDict /\ heap = <<>>
    /\ returned = NothingReturned /\ warnings = <<>>
    /\ last_call = [op |-> "", g |-> 0, subject |-> "", root_types |-> {}]
    /\ calls = 0
    /\ resources = <<>> /\ subclass_of = <<>> /\ SortIdle /\ GenIdle
    /\ FieldIdle /\ ModelIdle

SpecRound == RoundInit /\ [][DeserializeSubjectCall]_vars

\* ---- construction of a deserializer for a module
\* The module has at most MaxMembers members.
MaxMembers == 3
MemberNames == <<"A", "B", "C", "D", "E">>
\* The '$IRI' entry of model_config: absent, empty or an IRI; the one of
\* json_schema_extra: absent or one of two IRIs.
ConfigEntries == {<<>>, <<"">>, <<"iri:1">>}
ExtraEntries == {<<>>, <<"iri:1">>, <<"iri:2">>}
\* What a member can be: something that is not a model class, or a model
\* class with any combination of the two '$IRI' entries.
MemberKinds ==
    {[model |-> FALSE, config |-> <<>>, extra |-> <<>>]}
    \cup {[model |-> TRUE, config |-> c, extra |-> x] :
              c \in ConfigEntries, x \in ExtraEntries}
Modules ==
    UNION {{[i \in 1..n |-> Member(MemberNames[i], k[i].model, k[i].config, k[i].extra)] :
               k \in [1..n -> MemberKinds]} : n \in 0..MaxMembers}

\* The caller holds a module and has not constructed the deserializer yet.
RegistryInit ==
    /\ module \in Modules
    /\ original = NoOriginal
    /\ pool = <<>> /\ class_registry = EmptyDict /\ instances = EmptyDict /\ heap = <<>>
    /\ returned = NothingReturned /\ warnings = <<>>
    /\ last_call = [op |-> "", g |-> 0, subject |-> "", root_types |-> {}]
    /\ calls = 0
    /\ resources = <<>> /\ subclass_of = <<>> /\ SortIdle /\ GenIdle
    /\ FieldIdle /\ ModelIdle

\* SemPyRODeserializer(module): __init__ sets the fields and builds the
\* registry; no statement of it raises.
NewDeserializer ==
    /\ last_call.op = ""
    /\ class_registry' = BuildClassRegistry(module)
    /\ instances' = EmptyDict
    /\ returned' = Returned("None", 0, <<>>, "", <<>>)
    /\ last_call' = [op |-> "__init__", g |-> 0, subject |-> "", root_types |-> {}]
    /\ UNCHANGED <<pool, module, original, heap, warnings, calls>>
    /\ UNCHANGED otherThanDeser

SpecRegistry == RegistryInit /\ [][NewDeserializer]_vars

\* ----------------------------------------- properties of the deserializer
\* The instances constructed by the last call.
Born == {i \in 1..Len(heap) : heap[i].call = calls}

\* The instances an object holds in its fields.
Held(i) ==
    UNION {{v.id : v \in {w \in Range(heap[i].fields[f]) : w.kind = "inst"}} :
              f \in DOMAIN heap[i].fields}

\* C7: within one deserialize call at most one instance is constructed per
\* subject, and every reference to a typed subject, from an owner's field or
\* from the returned list, is the one instance constructed for that subject
\* in this call.
C7_SessionIdentity ==
    last_call.op = "deserialize" =>
        /\ \A i, j \in Born : heap[i].subject = heap[j].subject => i = j
        /\ \A i \in Born : \A v \in Held(i) : v \in Born
        /\ \A k \in 1..Len(returned.items) : returned.items[k] \in Born
        /\ \A k, m \in 1..Len(returned.items) :
              heap[returned.items[k]].subject = heap[returned.items[m]].subject => k = m

\* A diamond: two different owners hold the same instance, which is also an
\* entry of the returned list.
C7_Witness ==
    /\ last_call.op = "deserialize"
    /\ returned.kind = "list"
    /\ \E i, j \in Born : \E v \in Held(i) \cap Held(j) :
          /\ i # j /\ i # v /\ j # v
          /\ \E k \in 1..Len(returned.items) : returned.items[k] = v

\* C8: no call returns an instance that an earlier call cached: what a call
\* returns was constructed by that call, from the graph passed to it.
C8_CacheScopedToCall ==
    /\ (last_call.op = "deserialize_subject" /\ returned.kind = "instance") =>
          /\ heap[returned.id].call = calls
          /\ heap[returned.id].src = last_call.g
    /\ last_call.op = "deserialize" =>
          \A k \in 1..Len(returned.items) :
              /\ heap[returned.items[k]].call = calls
              /\ heap[returned.items[k]].src = last_call.g

\* C9: deserialize never aborts: it returns a list, and every selected
\* subject is either an entry of the list or the subject of a warning.
C9_BatchNeverAborts ==
    last_call.op = "deserialize" =>
        /\ returned.kind = "list"
        /\ {heap[returned.items[k]].subject : k \in 1..Len(returned.items)} \cup Range(warnings)
              = SelectedSubjects(pool[last_call.g], last_call.root_types)

\* C10: deserialize_subject on a subject with at least one rdf:type, none of
\* them registered, raises SemPyRODeserializationError naming all declared
\* types, and constructs no instance for the subject.
C10_UnregisteredRaises ==
    (/\ last_call.op = "deserialize_subject"
     /\ pool[last_call.g].types[last_call.subject] # <<>>
     /\ FirstRegistered(class_registry, pool[last_call.g].types[last_call.subject]) = NoClass)
    => /\ returned.kind = "raise"
       /\ returned.exc = "SemPyRODeserializationError"
       /\ returned.types = pool[last_call.g].types[last_call.subject]
       /\ \A i \in Born : heap[i].subject # last_call.subject


\* The rdf:type list of the subject of the last deserialize_subject call, in
\* the graph passed to it.
CalledTypes == pool[last_call.g].types[last_call.subject]

\* C11: every instance deserialize_subject builds is of the class of the
\* first declared type of its subject, in graph order, that the registry
\* holds; types declared after it are not used.
C11_FirstRegisteredTypeWins ==
    last_call.op = "deserialize_subject" =>
        \A b \in Born :
            \E i \in 1..Len(pool[last_call.g].types[heap[b].subject]) :
                /\ pool[last_call.g].types[heap[b].subject][i] \in DOMAIN class_registry
                /\ \A j \in 1..(i - 1) :
                      pool[last_call.g].types[heap[b].subject][j] \notin DOMAIN class_registry
                /\ heap[b].cls = class_registry[pool[last_call.g].types[heap[b].subject][i]]

\* The subject declares two registered types of different classes and the
\* call built and returned its instance.
C11_Witness ==
    /\ last_call.op = "deserialize_subject"
    /\ returned.kind = "instance"
    /\ returned.id \in Born
    /\ heap[returned.id].subject = last_call.subject
    /\ \E i, j \in 1..Len(CalledTypes) :
          /\ i < j
          /\ CalledTypes[i] \in DOMAIN class_registry
          /\ CalledTypes[j] \in DOMAIN class_registry
          /\ class_registry[CalledTypes[i]] # class_registry[CalledTypes[j]]

\* C12: a deserialize_subject call on a subject that has no rdf:type in the
\* graph and no entry in the cache returns None, raises nothing and leaves
\* the cache (and the instances built so far) as they were.
C12_UntypedReturnsNone ==
    [][(/\ calls' = calls + 1
        /\ last_call'.op = "deserialize_subject"
        /\ pool[last_call'.g].types[last_call'.subject] = <<>>
        /\ last_call'.subject \notin DOMAIN instances)
       => (/\ returned'.kind = "None"
           /\ instances' = instances
           /\ heap' = heap)]_vars

\* A second call, on an untyped subject, returned None while the cache held
\* the instance of another subject.
C12_Witness ==
    /\ calls > 1
    /\ last_call.op = "deserialize_subject"
    /\ CalledTypes = <<>>
    /\ returned.kind = "None"
    /\ DOMAIN instances # {}
    /\ last_call.subject \notin DOMAIN instances

\* The subjects of the instances that field name of instance b holds, in
\* the order of the field (empty when the field is absent).
FieldSubjects(b, name) ==
    IF name \in DOMAIN heap[b].fields
    THEN [k \in 1..Len(heap[b].fields[name]) |->
            IF heap[b].fields[name][k].kind = "inst"
            THEN heap[heap[b].fields[name][k].id].subject
            ELSE heap[b].fields[name][k].v]
    ELSE <<>>

\* The objects of the triples (a, p, _) of the graph of the last call, in the
\* order the graph returns them.
ObjSubjects(a, p) ==
    [k \in 1..Len(pool[last_call.g].objects[<<a, p>>]) |-> pool[last_call.g].objects[<<a, p>>][k].v]

\* The list fields of the class of instance b.
ListFields(b) ==
    {f \in Range(ModelFields(heap[b].cls)) : f.is_list}

\* C13 as stated: a list field of a constructed instance holds one element
\* for each triple of its predicate, in graph order.
C13_ListHoldsEveryTriple ==
    last_call.op = "deserialize_subject" =>
        \A b \in Born : \A f \in ListFields(b) :
            FieldSubjects(b, f.name) = ObjSubjects(heap[b].subject, f.rdf_term)

\* C13, amended: a list field of a constructed instance holds, in graph
\* order, one element for each triple of its predicate whose value was
\* converted; the values whose nested deserialization failed are left out
\* (and the field is absent when all of them failed).
C13_ListHoldsConvertedInOrder ==
    last_call.op = "deserialize_subject" =>
        \A b \in Born : \A f \in ListFields(b) :
            FieldSubjects(b, f.name) =
                SelectSeq(ObjSubjects(heap[b].subject, f.rdf_term),
                          LAMBDA t : t \in DOMAIN instances)

\* An instance was constructed whose list field holds two elements for two
\* triples, in an order that is the graph's and not the alphabetical one.
C13_Witness ==
    /\ last_call.op = "deserialize_subject"
    /\ \E b \in Born : \E f \in ListFields(b) :
          /\ FieldSubjects(b, f.name) = <<"s3", "s2">>
          /\ ObjSubjects(heap[b].subject, f.rdf_term) = <<"s3", "s2">>

\* The class the registry gives subject a in the graph of the last call.
ClassOf(a) == FirstRegistered(class_registry, pool[last_call.g].types[a])

\* The subjects that the extraction of the fields of subject a converts: the
\* first object of each scalar field's predicate, every object of each list
\* field's predicate.
Converted(a) ==
    UNION {IF f.is_list THEN Range(ObjSubjects(a, f.rdf_term))
           ELSE IF ObjSubjects(a, f.rdf_term) = <<>> THEN {}
           ELSE {ObjSubjects(a, f.rdf_term)[1]} :
           f \in Range(ModelFields(ClassOf(a)))}

\* The subjects reached from the subjects in R by at most k conversions.
RECURSIVE ReachedFrom(_, _)
ReachedFrom(R, k) ==
    IF k = 0 THEN R ELSE ReachedFrom(R \cup UNION {Converted(a) : a \in R}, k - 1)

\* C14: of several triples for the predicate of a scalar field only the first
\* object the graph returns is converted and used: the field of a constructed
\* instance holds that one value (or is absent when its conversion gave
\* None), and no instance is built for a subject that only the dropped
\* triples lead to.
C14_ScalarTakesFirst ==
    last_call.op = "deserialize_subject" =>
        /\ \A b \in Born : \A f \in Range(ModelFields(heap[b].cls)) :
              (~f.is_list /\ ObjSubjects(heap[b].subject, f.rdf_term) # <<>>) =>
                  FieldSubjects(b, f.name) =
                      IF ObjSubjects(heap[b].subject, f.rdf_term)[1] \in DOMAIN instances
                      THEN <<ObjSubjects(heap[b].subject, f.rdf_term)[1]>>
                      ELSE <<>>
        /\ \A b \in Born :
              heap[b].subject \in ReachedFrom({last_call.subject}, Cardinality(Subjects))

\* An instance was constructed from a subject with two triples on a scalar
\* field's predicate, both to subjects of a registered type with nothing
\* missing: the field holds the first, nothing was built for the second.
C14_Witness ==
    /\ last_call.op = "deserialize_subject"
    /\ \E b \in Born : \E f \in Range(ModelFields(heap[b].cls)) :
          /\ ~f.is_list
          /\ Len(ObjSubjects(heap[b].subject, f.rdf_term)) > 1
          /\ ClassOf(ObjSubjects(heap[b].subject, f.rdf_term)[2]) = "K"
          /\ FieldSubjects(b, f.name) = <<ObjSubjects(heap[b].subject, f.rdf_term)[1]>>
          /\ \A c \in Born : heap[c].subject # ObjSubjects(heap[b].subject, f.rdf_term)[2]

\* No chain of conversions that starts at subject a comes back to a subject
\* on it.
NoCycleFrom(a) ==
    \A x \in ReachedFrom({a}, Cardinality(Subjects)) :
        x \notin ReachedFrom(Converted(x), Cardinality(Subjects))

\* C15: a nested typed reference that fails to deserialize only leaves its
\* field absent.  When every value the owner's fields convert is a typed
\* reference, every required field has a triple and there is no reference
\* cycle, deserialize_subject returns the owner's instance, whichever of the
\* references failed.
C15_NestedFailureIsFieldScoped ==
    (/\ last_call.op = "deserialize_subject"
     /\ calls = 1
     /\ ClassOf(last_call.subject) # NoClass
     /\ NoCycleFrom(last_call.subject)
     /\ \A t \in Converted(last_call.subject) : pool[last_call.g].types[t] # <<>>
     /\ \A f \in Range(ModelFields(ClassOf(last_call.subject))) :
           f.required => ObjSubjects(last_call.subject, f.rdf_term) # <<>>)
    => /\ returned.kind = "instance"
       /\ heap[returned.id].subject = last_call.subject

\* C16: when the subject of a deserialize_subject call and another subject,
\* both of a registered type, refer to each other through values that the
\* field extraction converts, the call does not return an instance: the
\* recursion goes on until the interpreter stops it, and neither subject is
\* ever cached.
C16_CycleNeverReturns ==
    \A t \in Subjects :
        (/\ last_call.op = "deserialize_subject"
         /\ t # last_call.subject
         /\ ClassOf(last_call.subject) # NoClass
         /\ ClassOf(t) # NoClass
         /\ t \in Converted(last_call.subject)
         /\ last_call.subject \in Converted(t))
        => /\ returned.kind = "raise"
           /\ returned.exc = "RecursionError"
           /\ last_call.subject \notin DOMAIN instances
           /\ t \notin DOMAIN instances

\* deserialize_subject was called on a subject of a two-subject cycle and
\* ended in RecursionError.
C16_Witness ==
    /\ last_call.op = "deserialize_subject"
    /\ returned.kind = "raise"
    /\ returned.exc = "RecursionError"
    /\ \E t \in Subjects \ {last_call.subject} :
          /\ ClassOf(last_call.subject) # NoClass
          /\ ClassOf(t) # NoClass
          /\ t \in Converted(last_call.subject)
          /\ last_call.subject \in Converted(t)

\* C29: after deserialize_subject raised SemPyRODeserializationError for a
\* subject (no registered type, or the class rejected the field values), that
\* subject is not a key of the instance cache; and every value of the cache
\* is an instance that was constructed for its key, with field values its
\* class accepts.
C29_FailureLeavesNoCacheEntry ==
    /\ (/\ last_call.op = "deserialize_subject"
        /\ returned.kind = "raise"
        /\ returned.exc = "SemPyRODeserializationError")
          => last_call.subject \notin DOMAIN instances
    /\ \A k \in DOMAIN instances :
          /\ instances[k] \in 1..Len(heap)
          /\ heap[instances[k]].subject = k
          /\ CanInstantiate(heap[instances[k]].cls, heap[instances[k]].fields)

\* The class of the subject rejected the field values after a nested object
\* of the subject had been constructed and cached.
C29_Witness ==
    /\ last_call.op = "deserialize_subject"
    /\ returned.kind = "raise"
    /\ returned.exc = "SemPyRODeserializationError"
    /\ returned.types = <<>>
    /\ FirstRegistered(class_registry, pool[last_call.g].types[last_call.subject]) # NoClass
    /\ instances # EmptyDict

\* C24: the list returned by deserialize holds the constructed instances in
\* the order in which the graph yields their subjects.
C24_ReturnedInGraphOrder ==
    (last_call.op = "deserialize" /\ returned.kind = "list") =>
        [k \in 1..Len(returned.items) |-> heap[returned.items[k]].subject]
            = SelectSeq(TypeTripleSubjects(pool[last_call.g]),
                        LAMBDA s : \E k \in 1..Len(returned.items) :
                                      heap[returned.items[k]].subject = s)

\* The subjects of the graph of the last call that deserialize_subject turns
\* into an instance when it starts from an empty cache.
Deserializable ==
    {s \in Subjects :
        deserialize_subject(Context(last_call.g), s,
                            [instances |-> EmptyDict, heap |-> heap], 1).tag = "instance"}

\* The entries of the returned list that were built for subject s.
EntriesFor(s) ==
    {k \in 1..Len(returned.items) : heap[returned.items[k]].subject = s}

\* C25: deserialize(graph, root_types=T) returns a list with exactly one entry
\* for each subject that has an rdf:type in T and deserializes successfully,
\* and no entry for a subject none of whose types is in T.
C25_TypeFilter ==
    last_call.op = "deserialize" =>
        /\ returned.kind = "list"
        /\ \A s \in Subjects :
              Cardinality(EntriesFor(s)) =
                  IF /\ s \in SelectedSubjects(pool[last_call.g], last_call.root_types)
                     /\ s \in Deserializable
                  THEN 1 ELSE 0

\* C25 on the calls that C9's RecursionError does not abort.
C25_TypeFilterWhenReturning ==
    (last_call.op = "deserialize" /\ returned.kind = "list") =>
        \A s \in Subjects :
              Cardinality(EntriesFor(s)) =
                  IF /\ s \in SelectedSubjects(pool[last_call.g], last_call.root_types)
                     /\ s \in Deserializable
                  THEN 1 ELSE 0

\* The model classes of the module that carry IRI iri: positions in the
\* member order.
Carrying(iri) ==
    {i \in 1..Len(module) :
        /\ module[i].model
        /\ \/ module[i].config = <<iri>>
           \/ module[i].extra = <<iri>>}

\* The non-empty IRIs that model classes of the module carry.
CarriedIris ==
    {iri \in {"iri:1", "iri:2"} : Carrying(iri) # {}}

Registering(iri) ==
    {i \in 1..Len(module) :
        /\ module[i].model
        /\ IF module[i].config # <<>> THEN module[i].config = <<iri>>
           ELSE module[i].extra = <<iri>>}

FieldOf(b, name) ==
    IF name \in DOMAIN heap[b].fields THEN heap[b].fields[name] ELSE <<>>

C27_AssociationKeepsUri ==
    \A t \in Subjects \ {"s1"} :
        (/\ last_call.op = "deserialize_subject" /\ last_call.subject = "s1"
         /\ FirstRegistered(class_registry, pool[last_call.g].types["s1"]) # NoClass
         /\ pool[last_call.g].objects[<<"s1", "Q">>] = <<UriNode(t)>>
         /\ pool[last_call.g].types[t] # <<>>)
            => /\ returned.kind = "instance"
               /\ FieldOf(returned.id, "refs") = <<StrValue(t)>>

\* -------------------------------------------- properties of generate_field
\* A declared range that one of the mapping rules covers.
Recognised(parts) ==
    /\ Len(parts) = 2
    /\ \/ parts[1] = "cdi"
       \/ parts[1] = "xsd" /\ parts[2] \in DOMAIN XsdTypes

\* The attribute's range is one recognised name.
MappableSingle == field_run.range.kind = "str" /\ Recognised(field_run.range.parts)

\* The schema element carries a maxOccurs that is "unbounded" or a number.
MaxOccursGiven ==
    /\ field_run.entry.found
    /\ field_run.entry.maxOccurs \in NumericStrings \cup {"unbounded"}

\* The emitted annotation is a list, is optional.
EmittedList == Head(field_run.code.python_type) = "list["
EmittedOptional == field_run.code.python_type[Len(field_run.code.python_type)] = " | None"

\* C17 as stated: when the schema has no element for the attribute, so that
\* the cardinality is empty, generate_field still emits the field, optional
\* and not list-wrapped.
C17_MissingCardinalityIsOptionalSingular ==
    (field_run.pc = "done" /\ ~field_run.entry.found /\ MappableSingle) =>
        /\ field_run.code.tag = "field"
        /\ ~EmittedList
        /\ EmittedOptional
        /\ field_run.code.default = "None"

\* C18: for a recognised range and a given maxOccurs generate_field emits a
\* field; its type is list[...] exactly when maxOccurs is "unbounded" or a
\* number above 1, it ends in " | None" and has default None exactly when
\* minOccurs is "0", and the list is closed before the optional mark.
C18_CardinalityDerivation ==
    (field_run.pc = "done" /\ MappableSingle /\ MaxOccursGiven) =>
        /\ field_run.code.tag = "field"
        /\ EmittedList <=>
              \/ field_run.entry.maxOccurs = "unbounded"
              \/ \E n \in 2..MaxCount : ToString(n) = field_run.entry.maxOccurs
        /\ EmittedOptional <=> field_run.entry.minOccurs = "0"
        /\ field_run.code.default = "None" <=> field_run.entry.minOccurs = "0"
        /\ (EmittedList /\ EmittedOptional) =>
              field_run.code.python_type[Len(field_run.code.python_type) - 1] = "]"
        /\ (EmittedList /\ ~EmittedOptional) =>
              field_run.code.python_type[Len(field_run.code.python_type)] = "]"

\* A field that is both a list and optional was emitted.
C18_Witness ==
    /\ field_run.pc = "done"
    /\ field_run.code.tag = "field"
    /\ field_run.entry.minOccurs = "0"
    /\ field_run.entry.maxOccurs = "unbounded"
    /\ EmittedList /\ EmittedOptional

\* C19 as stated: for a range list of recognised names generate_field emits a
\* field, typed as the Union of the mapped types when the list has several
\* names and as the one mapped type when it has one.
C19_RangeListCompiles ==
    (/\ field_run.pc = "done"
     /\ field_run.range.kind = "list"
     /\ \A i \in 1..Len(field_run.range.items) : Recognised(field_run.range.items[i])
     /\ MaxOccursGiven)
    => /\ field_run.code.tag = "field"
       /\ Len(field_run.range.items) > 1 =>
             \E i \in 1..Len(field_run.code.python_type) : field_run.code.python_type[i] = "Union["
       /\ Len(field_run.range.items) = 1 =>
             \A i \in 1..Len(field_run.code.python_type) : field_run.code.python_type[i] # "Union["

\* C20: when a declared range is covered by no mapping rule (unknown xsd
\* type, unknown prefix, no prefix), alone or in a range list, generate_field
\* raises and emits no field.
C20_UnmappableRangeRaises ==
    (/\ field_run.pc = "done"
     /\ \/ field_run.range.kind = "str" /\ ~Recognised(field_run.range.parts)
        \/ /\ field_run.range.kind = "list"
           /\ \E i \in 1..Len(field_run.range.items) : ~Recognised(field_run.range.items[i]))
    => /\ field_run.code.tag = "raise"
       /\ field_run.code.python_type = <<>>

\* generate_field raised for an unknown xsd type although the cardinality
\* was complete.
C20_Witness ==
    /\ field_run.pc = "done"
    /\ field_run.range = StrRange(<<"xsd", "token">>)
    /\ MaxOccursGiven
    /\ field_run.code.tag = "raise"
    /\ field_run.code.exc = "ValueError"

\* ------------------------------------------ properties of the DdiCdiModel
\* The attributes that are the resource's own and also a superclass's.
Colliding(resource_uri) ==
    {a \in Range(ontology.attributes) :
        /\ resource_uri \in a.domains
        /\ \E k \in 1..Len(GetResourceSuperclasses(resource_uri)) :
              GetResourceSuperclasses(resource_uri)[k] \in a.domains}

\* The entries stored under uri in the returned map.
EntriesOf(uri) ==
    {model_run.attributes[i] :
        i \in {j \in 1..Len(model_run.attributes) : model_run.attributes[j].uri = uri}}

\* C23: in the map returned by get_resource_domain_attributes(resource,
\* inherited=True), an attribute that is the resource's own and also
\* inherited from an ancestor has the own entry (inherited = False).
C23_OwnEntryWins ==
    (model_run.op = "get_resource_domain_attributes" /\ model_run.inherited) =>
        \A a \in Colliding(model_run.resource) :
            \A en \in EntriesOf(a.uri) : en.inherited = "False"

\* What the model does on such a collision: the one entry under the key is
\* the ancestor's, marked inherited.
C23_InheritedEntryWins ==
    (model_run.op = "get_resource_domain_attributes" /\ model_run.inherited) =>
        \A a \in Colliding(model_run.resource) :
            /\ Cardinality(EntriesOf(a.uri)) = 1
            /\ \A en \in EntriesOf(a.uri) : en.inherited = "True" /\ en.inherited_from # ""

\* C30: get_resource_attribute_cardinality(resource_uri, attribute_uri)
\* searches the complexType named after resource_uri and returns the
\* cardinality of the attribute's element inside that type.
C30_CardinalityInContextOfResource ==
    model_run.op = "get_resource_attribute_cardinality" =>
        /\ model_run.type_name = model_run.resource
        /\ model_run.cardinality =
              GetResourceAttributeCardinality(
                  XmlFind(ontology.xml, model_run.resource, model_run.attribute))

\* What the model does: the answer for an attribute is the same for every
\* resource it is asked for.
C30_SameForEveryResource ==
    \A i \in 1..Len(ontology.attributes) : \A r1, r2 \in OntologyClasses :
        ResourceAttributeCardinality(ontology, r1, ontology.attributes[i].uri)
            = ResourceAttributeCardinality(ontology, r2, ontology.attributes[i].uri)

\* The field names generate_resource writes for the superclasses of a
\* resource.
InheritedFieldNames(resource_uri) ==
    UNION {Range(GenerateResourceFields(ontology, GetResourceSuperclasses(resource_uri)[k]).fields) :
              k \in 1..Len(GetResourceSuperclasses(resource_uri))}

\* C21: the fields generate_resource writes for a resource have pairwise
\* different names, and none of them has the name of a field written for
\* an ancestor of the resource.
C21_FieldNamesUnique ==
    (model_run.op = "generate_resource" /\ model_run.code.tag = "code") =>
        /\ \A i, j \in 1..Len(model_run.code.fields) :
              i # j => model_run.code.fields[i] # model_run.code.fields[j]
        /\ Range(model_run.code.fields) \cap InheritedFieldNames(model_run.resource) = {}

\* ------------------------------------------------ properties of the sort
\* The subclass-of relation restricted to the resource set, as a set of
\* <<child, parent>> pairs.
RestrictedPairs == Range(RestrictedItems(resources, subclass_of))

InSet(e) == e[1] \in Range(resources) /\ e[2] \in Range(resources)
HasParent(n) == \E i \in 1..Len(subclass_of) : subclass_of[i][1] = n /\ InSet(subclass_of[i])
ParentOf(n) == subclass_of[CHOOSE i \in 1..Len(subclass_of) : subclass_of[i][1] = n][2]

\* The node k parent-steps above n, or 0 when the chain ends before.
RECURSIVE Up(_, _)
Up(n, k) ==
    IF k = 0 THEN n
    ELSE IF n = 0 \/ ~HasParent(n) THEN 0
    ELSE Up(ParentOf(n), k - 1)

OnCycle(n) == \E k \in 1..Len(resources) : Up(n, k) = n
HasCycle == \E n \in Range(resources) : OnCycle(n)
Acyclic == ~HasCycle
\* n's chain of parents ends at a resource with no parent in the set.
Rooted(n) == \E k \in 0..Len(resources) : Up(n, k) # 0 /\ ~HasParent(Up(n, k))

IncorrectItems == SelectSeq(reordered_items, LAMBDA it : it.mark = "incorrect")

\* C1: when the restricted subclass-of relation is acyclic, every restricted
\* (child, parent) pair has the parent before the child in the returned list.
C1_ParentBeforeChild ==
    (pc = "done" /\ Acyclic) =>
        \A e \in RestrictedPairs : IndexOf(result, e[2]) < IndexOf(result, e[1])

\* C1 witness: an acyclic chain of two edges whose input order was child first.
C1_Witness ==
    /\ pc = "done" /\ Acyclic
    /\ Cardinality(RestrictedPairs) >= 2
    /\ \E e \in RestrictedPairs : IndexOf(resources, e[1]) < IndexOf(resources, e[2])

\* C2: the function terminates (within len(resources) loop iterations and the
\* three passes around the loop, never stuck before its return) and returns a
\* permutation of its input, whether the relation is acyclic, cyclic or has a
\* self-loop.
C2_TerminatesWithPermutation ==
    /\ steps <= Len(resources) + 3
    /\ pc # "done" => ENABLED SortNext
    /\ pc = "done" =>
          /\ Len(result) = Len(resources)
          /\ \A r \in Range(resources) :
                Cardinality({i \in 1..Len(result) : result[i] = r}) = 1

\* C2 witness: a returned list for an input that holds a self-loop and a child
\* of the self-looping resource, neither of which the loop ever visits.
C2_Witness ==
    /\ pc = "done"
    /\ \E n, m \in Range(resources) :
          n # m /\ <<n, n>> \in RestrictedPairs /\ <<m, n>> \in RestrictedPairs

\* C3: the verification pass records at least one "still incorrect order" pair
\* when the restricted relation has a cycle and none when it is acyclic, and it
\* leaves the returned order as it found it.
C3_VerificationReports ==
    /\ [](pc = "done" =>
            /\ HasCycle => IncorrectItems # <<>>
            /\ Acyclic => IncorrectItems = <<>>)
    /\ [][pc = "verify" => result' = result]_vars

\* C3 witness: a cyclic input whose only cycle is a self-loop, verified.
C3_Witness ==
    /\ pc = "done"
    /\ HasCycle
    /\ \A n \in Range(resources) : OnCycle(n) => <<n, n>> \in RestrictedPairs
    /\ IncorrectItems # <<>>

\* C4: for A without parent, B with parent A and C with parent B, the result
\* is exactly [A, B, C] for each of the six orderings of the input list.
C4_LinearInheritance ==
    pc = "done" =>
        \A a, b, c \in Nodes :
            (/\ Cardinality({a, b, c}) = 3
             /\ Len(resources) = 3 /\ Range(resources) = {a, b, c}
             /\ RestrictedPairs = {<<b, a>>, <<c, b>>})
            => result = <<a, b, c>>

\* C4 witness: the chain given in the reversed input order [C, B, A].
C4_Witness ==
    /\ pc = "done"
    /\ \E a, b, c \in Nodes :
          /\ Cardinality({a, b, c}) = 3
          /\ resources = <<c, b, a>>
          /\ RestrictedPairs = {<<b, a>>, <<c, b>>}
          /\ result = <<a, b, c>>

\* Position of child n's entry in the iteration order of subclass_of.
ItemIndex(n) == CHOOSE i \in 1..Len(subclass_of) : subclass_of[i][1] = n

IsSeed(n) == ~HasParent(n)
\* Two distinct children released by the removal of one parent.
ReleasedTogether(x, y) ==
    /\ x # y /\ HasParent(x) /\ HasParent(y)
    /\ ParentOf(x) = ParentOf(y)
    /\ Rooted(ParentOf(x))

\* C5 as stated: nodes that become ready together (the seeds; the children
\* released by one parent) keep their relative input order in the result,
\* whatever the iteration order of subclass_of.
C5_StableAsStated ==
    pc = "done" =>
        \A x, y \in Range(resources) :
            ((IsSeed(x) /\ IsSeed(y)) \/ ReleasedTogether(x, y))
            /\ IndexOf(resources, x) < IndexOf(resources, y)
            => IndexOf(result, x) < IndexOf(result, y)

\* C5 amended: the seeds keep their relative input order; the children
\* released by one parent appear in the order in which subclass_of iterates
\* their entries.
C5_FifoInMapOrder ==
    pc = "done" =>
        \A x, y \in Range(resources) :
            /\ (IsSeed(x) /\ IsSeed(y) /\ IndexOf(resources, x) < IndexOf(resources, y))
                  => IndexOf(result, x) < IndexOf(result, y)
            /\ (ReleasedTogether(x, y) /\ ItemIndex(x) < ItemIndex(y))
                  => IndexOf(result, x) < IndexOf(result, y)

\* C5 witness: two children released by one parent whose map order is the
\* reverse of their input order, and two seeds.
C5_Witness ==
    /\ pc = "done"
    /\ \E x, y \in Range(resources) :
          /\ ReleasedTogether(x, y)
          /\ ItemIndex(x) < ItemIndex(y)
          /\ IndexOf(resources, y) < IndexOf(resources, x)
          /\ IndexOf(result, x) < IndexOf(result, y)

\* C28: when Kahn's loop ends with unvisited resources, the result is the
\* visited resources in visit order followed by the unvisited ones in their
\* relative input order, and among the visited resources every parent still
\* stands before its child.
C28_CyclePolicy ==
    /\ [][(pc = "kahn" /\ pc' = "verify") =>
            /\ SubSeq(result', 1, Len(result)) = result
            /\ \A i, j \in (Len(result) + 1)..Len(result') :
                  i < j => IndexOf(resources, result'[i]) < IndexOf(resources, result'[j])
            /\ Range(result') = Range(resources)
            /\ Len(result') = Len(resources)]_vars
    /\ [](pc = "kahn" =>
            \A e \in RestrictedPairs :
                e[1] \in Range(result) =>
                    /\ e[2] \in Range(result)
                    /\ IndexOf(result, e[2]) < IndexOf(result, e[1]))

\* A run in which one resource was visited and two resources of a cycle were
\* appended behind it in input order, although both precede it in the input.
C28_Witness ==
    /\ pc = "done"
    /\ \E x, y, z \in Range(resources) :
          /\ x # y /\ OnCycle(x) /\ OnCycle(y) /\ ~HasParent(z)
          /\ IndexOf(resources, x) < IndexOf(resources, y)
          /\ IndexOf(resources, y) < IndexOf(resources, z)
          /\ IndexOf(result, z) < IndexOf(result, x)
          /\ IndexOf(result, x) < IndexOf(result, y)

=============================================================================
